---- MODULE Spec2Model ----
(***************************************************************************)
(* A model of bevy-tokio-tasks (src/src/lib.rs): the tick counter and its  *)
(* watch channel (UpdateTicks), the callback queue and the per-tick pump   *)
(* (tick_runtime_update / execute_main_thread_work), and the background    *)
(* tasks' TaskContext operations (current_tick, sleep_updates,             *)
(* run_on_main_thread).                                                    *)
(*                                                                         *)
(* The host thread and every background task are separate processes; each  *)
(* action is one atomic step of one of them (an atomic load or fetch_add,  *)
(* a channel send or receive), so every interleaving a multi-threaded      *)
(* Tokio runtime allows is a behaviour of the model.                       *)
(*                                                                         *)
(* usize is scaled down from 64 bits to UsizeBits bits; the wrapping       *)
(* arithmetic of the source is kept (% Modulus).                           *)
(***************************************************************************)
EXTENDS Integers, Sequences, FiniteSets, TLC

\* ------------------------------------------------------------- bounds
NumTasks == 2
MaxTicks == 2
UsizeBits == 2

Tasks == 1..NumTasks
Modulus == 2 ^ UsizeBits
\* The arguments tasks pass to sleep_updates: small ones and usize::MAX.
SleepArgs == {0, 1, 2, Modulus - 1}

VARIABLES
    ticks,       \* UpdateTicks.ticks / TaskContext.ticks: the shared AtomicUsize
    version,     \* the watch channel's version: the number of send(()) so far
    txAlive,     \* the UpdateTicks resource (and with it update_watch_tx) exists
    facade,      \* where the TokioTasksRuntime is: "world", "pump" or "gone"
    queue,       \* the mpsc queue update_run_tx -> update_run_rx
    pumpPc,      \* the host thread's position in tick_runtime_update
    curTick,     \* tick_runtime_update's local current_tick
    executing,   \* the callbacks whose body is running
    pc,          \* each task's position
    arg,         \* sleep_updates' parameter updates_to_sleep
    target,      \* sleep_updates' local target_tick
    goal,        \* ghost: the tick read at the call plus updates_to_sleep, unwrapped
    unseen,      \* the task's watch receiver has not seen the channel's version
    reply,       \* the task's oneshot reply channel: its state and the value in it
    execCount,   \* ghost: how often the callback of the task's current call was started
    enqOrder,    \* ghost: the tasks whose callback was enqueued and has not started, oldest first
    completed    \* ghost: pump invocations that ran to their end with the clock registered

vars == <<ticks, version, txAlive, facade, queue, pumpPc, curTick, executing,
          pc, arg, target, goal, unseen, reply, execCount, enqOrder, completed>>

hostVars == <<ticks, version, txAlive, facade, pumpPc, curTick, executing, completed>>

\* ------------------------------------------------------------- helpers

\* ticks.load(Ordering::SeqCst): what current_tick() returns and what
\* sleep_updates reads.
Load == ticks

\* An entry of the callback queue: the boxed closure of run_on_main_thread,
\* which owns output_tx of the submitting task's call.  tick and late are
\* ghost fields: the counter at the enqueue, and whether a callback of a pump
\* invocation's drain was executing at the enqueue.
Entry(t) == [task |-> t, tick |-> Load, late |-> pumpPc = "running"]

\* Positions at which a task still owns its TaskContext (and so a watch receiver).
LivePcs == {"ready", "sleep_check", "sleep_poll", "sleep_wait", "rmt_wait"}

\* watch::Sender::receiver_count: the facade's update_watch_rx and one clone per live task.
ReceiverCount ==
    (IF facade = "gone" THEN 0 ELSE 1) + Cardinality({t \in Tasks : pc[t] \in LivePcs})

QueuedTasks == {queue[i].task : i \in DOMAIN queue}

\* The sequence s without task t.
Without(s, t) == SelectSeq(s, LAMBDA x : x # t)

\* The states of a oneshot channel: not made, made and empty, holding the
\* value v, and closed by the drop of its unused sender.
NoReply == [st |-> "none", val |-> 0]
Pending == [st |-> "pending", val |-> 0]
Sent(v) == [st |-> "sent", val |-> v]
Closed == [st |-> "closed", val |-> 0]

\* Dropping the queue's receiving half drops the queued closures and their
\* output_tx: the reply channels of those calls are closed.
CloseReplies(dropped) ==
    [t \in Tasks |-> IF t \in dropped /\ pc[t] = "rmt_wait" THEN Closed ELSE reply[t]]

Init ==
    /\ ticks = 0
    /\ version = 0
    /\ txAlive = TRUE
    /\ facade = "world"
    /\ queue = <<>>
    /\ pumpPc = "idle"
    /\ curTick = 0
    /\ executing = {}
    /\ pc = [t \in Tasks |-> "unspawned"]
    /\ arg = [t \in Tasks |-> 0]
    /\ target = [t \in Tasks |-> 0]
    /\ goal = [t \in Tasks |-> 0]
    /\ unseen = [t \in Tasks |-> FALSE]
    /\ reply = [t \in Tasks |-> NoReply]
    /\ execCount = [t \in Tasks |-> 0]
    /\ enqOrder = <<>>
    /\ completed = 0

\* ------------------------------------------------------------- the host thread

\* Mutant of FetchAdd: the counter advances by two per invocation.
FetchAdd_Twice(n) == (n + 2) % Modulus

\* The counter after ticks.fetch_add(1, Ordering::SeqCst) found it at n.
FetchAdd(n) == (n + 1) % Modulus

\* Mutant of NewTicks: increment_ticks returns the value fetch_add fetched.
NewTicks_Fetched(fetched) == fetched

\* Mutant of NewTicks: .wrapping_add(1) is applied to the counter as it is
\* after the fetch_add instead of the value fetched.
NewTicks_AddedTwice(fetched) == (fetched + 2) % Modulus

\* increment_ticks' new_ticks, which becomes the pump's current_tick:
\* .wrapping_add(1) of the value fetch_add fetched.
NewTicks(fetched) == (fetched + 1) % Modulus

\* tick_runtime_update, with the tick clock registered, up to increment_ticks'
\* fetch_add.  (The guard on MaxTicks bounds the model.)
PumpBegin ==
    /\ pumpPc = "idle"
    /\ txAlive
    /\ ticks < MaxTicks
    /\ ticks' = FetchAdd(ticks)
    /\ curTick' = NewTicks(ticks)
    /\ pumpPc' = "incremented"
    /\ UNCHANGED <<version, txAlive, facade, queue, executing, pc, arg, target, goal,
                   unseen, reply, execCount, enqOrder, completed>>

\* tick_runtime_update without the UpdateTicks resource: it returns at once.
PumpNoClock ==
    /\ pumpPc = "idle"
    /\ ~txAlive
    /\ UNCHANGED vars

\* Mutant of Notified: an edge-triggered signal, which reaches only the
\* tasks that are suspended in changed() at the send.
Notified_WaitersOnly == [t \in Tasks |-> unseen[t] \/ pc[t] = "sleep_wait"]

\* The receivers after a send: the channel's version is new to every one of
\* them (the flag of a task that owns no receiver stays FALSE).
Notified == [t \in Tasks |-> pc[t] \in LivePcs]

\* increment_ticks' update_watch_tx.send(()).expect(..): watch's send fails,
\* and the expect panics, when the channel has no receiver.
PumpSend ==
    /\ pumpPc = "incremented"
    /\ IF ReceiverCount = 0
         THEN pumpPc' = "panicked" /\ UNCHANGED version
         ELSE pumpPc' = "sent" /\ version' = version + 1
    /\ unseen' = Notified
    /\ UNCHANGED <<ticks, txAlive, facade, queue, curTick, executing, pc, arg, target,
                   goal, reply, execCount, enqOrder, completed>>

\* world.remove_resource::<TokioTasksRuntime>() and, when it is there,
\* execute_main_thread_work's block_on(yield_now); without it the pump returns.
PumpTake ==
    /\ pumpPc = "sent"
    /\ IF facade = "world"
         THEN facade' = "pump" /\ pumpPc' = "drain" /\ UNCHANGED completed
         ELSE pumpPc' = "idle" /\ completed' = completed + 1 /\ UNCHANGED facade
    /\ UNCHANGED <<ticks, version, txAlive, queue, curTick, executing, pc, arg, target,
                   goal, unseen, reply, execCount, enqOrder>>

\* The position at which the drain loop calls try_recv.
CanTryRecv == pumpPc = "drain"

\* Mutant of AfterRecv: try_recv returns the head and leaves it queued.
AfterRecv_NoPop(q) == q

\* What try_recv leaves in the queue when it returns the head.
AfterRecv(q) == Tail(q)

\* The entry try_recv returns.
Received(q) == Head(q)

\* Mutant of Reinserted: the pump drops the runtime at the end of its scope.
Reinserted_Dropped == "gone"

\* Where the facade is after world.insert_resource(runtime).
Reinserted == "world"

\* One evaluation of `while let Ok(runnable) = update_run_rx.try_recv()`:
\* on Empty the loop ends, the facade goes back into the world and the pump
\* returns; otherwise the received callback starts running.
PumpTryRecv ==
    /\ CanTryRecv
    /\ IF queue = <<>>
         THEN /\ facade' = Reinserted
              /\ pumpPc' = "idle"
              /\ completed' = completed + 1
              /\ UNCHANGED <<queue, executing, execCount, enqOrder>>
         ELSE /\ executing' = executing \cup {Received(queue)}
              /\ queue' = AfterRecv(queue)
              /\ execCount' = [execCount EXCEPT ![Received(queue).task] = @ + 1]
              /\ enqOrder' = Without(enqOrder, Received(queue).task)
              /\ pumpPc' = "running"
              /\ UNCHANGED <<facade, completed>>
    /\ UNCHANGED <<ticks, version, txAlive, curTick, pc, arg, target, goal, unseen, reply>>

\* Whether output_tx.send(..) of the callback of task t succeeds: the oneshot
\* receiver is alive only while the task is suspended on output_rx.
ReplyDeliverable(t) == pc[t] = "rmt_wait"

\* The value runnable(ctx) of entry e returns: each call's callback produces
\* a value of its own, here the call's task.
Output(e) == e.task

\* Mutant of ReplyChannel: the wrapper sends into another call's channel.
ReplyChannel_Other(e) == (e.task % NumTasks) + 1

\* The reply channel whose output_tx the wrapper of entry e captured: the one
\* made by the same run_on_main_thread call.
ReplyChannel(e) == e.task

\* The end of a callback: runnable(ctx) has run and the wrapper sends its
\* output; when the send fails the wrapper panics on the host thread.
PumpCallbackDone ==
    /\ pumpPc = "running"
    /\ \E e \in executing :
          IF ReplyDeliverable(ReplyChannel(e))
          THEN /\ reply' = [reply EXCEPT ![ReplyChannel(e)] = Sent(Output(e))]
               /\ executing' = executing \ {e}
               /\ pumpPc' = "drain"
          ELSE /\ pumpPc' = "panicked"
               /\ UNCHANGED <<reply, executing>>
    /\ UNCHANGED <<ticks, version, txAlive, facade, queue, curTick, pc, arg, target,
                   goal, unseen, execCount, enqOrder, completed>>

\* The tasks a drop of the TokioTasksRuntime may take with it.  The fields of
\* TokioTasksRuntimeInner are dropped in their order: `runtime` first, whose
\* shutdown drops the future of every task spawned onto it at its await,
\* then the queue's two halves: the live tasks are all dropped.  Tasks whose
\* TaskContext is polled from outside that runtime (TaskContext is Clone and
\* Send) survive the drop: none is dropped.
ShutDownChoices == {{}, {t \in Tasks : pc[t] \in LivePcs}}

\* The drop of the TokioTasksRuntime: the tasks in S are dropped by the
\* runtime's shutdown, and the queue's receiving half is dropped with every
\* callback still queued.
DropFacade(S) ==
    /\ facade' = "gone"
    /\ queue' = <<>>
    /\ enqOrder' = <<>>
    /\ pc' = [t \in Tasks |-> IF t \in S THEN "dropped" ELSE pc[t]]
    /\ reply' = [t \in Tasks |-> IF t \in S THEN NoReply ELSE CloseReplies(QueuedTasks)[t]]
    /\ unseen' = [t \in Tasks |-> t \notin S /\ unseen[t]]
    /\ arg' = [t \in Tasks |-> IF t \in S THEN 0 ELSE arg[t]]
    /\ target' = [t \in Tasks |-> IF t \in S THEN 0 ELSE target[t]]
    /\ goal' = [t \in Tasks |-> IF t \in S THEN 0 ELSE goal[t]]

\* The panic unwinds through execute_main_thread_work and tick_runtime_update:
\* the local `runtime` is dropped and never put back.
PumpUnwind ==
    /\ pumpPc = "panicked"
    /\ facade = "pump"
    /\ executing' = {}
    /\ \E S \in ShutDownChoices : DropFacade(S)
    /\ UNCHANGED <<ticks, version, txAlive, pumpPc, curTick, execCount, completed>>

\* The host removes the UpdateTicks resource (the case tick_runtime_update's
\* `None => return` answers): update_watch_tx is dropped.
DropUpdateTicks ==
    /\ pumpPc = "idle"
    /\ txAlive
    /\ txAlive' = FALSE
    /\ UNCHANGED <<ticks, version, facade, queue, pumpPc, curTick, executing, pc,
                   arg, target, goal, unseen, reply, execCount, enqOrder, completed>>

\* The host removes and drops the TokioTasksRuntime resource (the case
\* tick_runtime_update's `if let Some(..)` answers).
DropRuntime ==
    /\ pumpPc = "idle"
    /\ facade = "world"
    /\ \E S \in ShutDownChoices : DropFacade(S)
    /\ UNCHANGED <<ticks, version, txAlive, pumpPc, curTick, executing, execCount, completed>>

\* ------------------------------------------------------------- background tasks

\* update_watch_rx.clone(): the clone takes the version of the facade's
\* receiver, which never calls changed() and so keeps the channel's initial
\* version (0): every send so far is unseen by the clone.
ClonedUnseen == version # 0

\* spawn_background_task, called by a host system between pump invocations.
Spawn(t) ==
    /\ pc[t] = "unspawned"
    /\ pumpPc = "idle"
    /\ facade = "world"
    /\ pc' = [pc EXCEPT ![t] = "ready"]
    /\ unseen' = [unseen EXCEPT ![t] = ClonedUnseen]
    /\ UNCHANGED <<hostVars, queue, arg, target, goal, reply, execCount, enqOrder>>

\* sleep_updates: target_tick = ticks.load().wrapping_add(updates_to_sleep).
TargetTick(now, k) == (now + k) % Modulus

SleepStart(t, k) ==
    /\ pc[t] = "ready"
    /\ arg' = [arg EXCEPT ![t] = k]
    /\ target' = [target EXCEPT ![t] = TargetTick(Load, k)]
    /\ goal' = [goal EXCEPT ![t] = Load + k]
    /\ pc' = [pc EXCEPT ![t] = "sleep_check"]
    /\ UNCHANGED <<hostVars, queue, unseen, reply, execCount, enqOrder>>

\* Mutant of MustWait: the loop ends one tick early.
MustWait_OffByOne(now, tgt) == now + 1 < tgt

\* Mutant of MustWait: the loop waits while the counter is at the target.
MustWait_Inclusive(now, tgt) == now <= tgt

\* sleep_updates' loop condition: ticks.load() < target_tick.
MustWait(now, tgt) == now < tgt

SleepCheck(t) ==
    /\ pc[t] = "sleep_check"
    /\ IF MustWait(Load, target[t])
         THEN pc' = [pc EXCEPT ![t] = "sleep_poll"] /\ UNCHANGED <<arg, target, goal>>
         ELSE /\ pc' = [pc EXCEPT ![t] = "ready"]
              /\ arg' = [arg EXCEPT ![t] = 0]
              /\ target' = [target EXCEPT ![t] = 0]
              /\ goal' = [goal EXCEPT ![t] = 0]
    /\ UNCHANGED <<hostVars, queue, unseen, reply, execCount, enqOrder>>

\* Whether the receiver of task t finds a version it has not seen.
HasChanged(t) == unseen[t]

\* Mutant of ChangedResult: changed() does not notice the sender's drop.
ChangedResult_NoErr(t) == IF HasChanged(t) THEN "ok" ELSE "pending"

\* What changed() returns when it is polled, "pending" when it suspends: Ok
\* once the channel's version differs from the one the receiver has seen,
\* otherwise Err once the sender is dropped.
ChangedResult(t) ==
    IF HasChanged(t) THEN "ok" ELSE IF ~txAlive THEN "err" ELSE "pending"

\* Mutant of MarkSeen: the tasks share one receiver, so that one task's
\* changed() marks the version seen for all of them.
MarkSeen_Shared(t) == [u \in Tasks |-> FALSE]

\* Mutant of MarkSeen: changed() returns Ok without marking the version seen.
MarkSeen_Never(t) == unseen

\* changed() returning Ok marks the channel's version seen in the receiver
\* of task t, its own clone (update_watch_rx.clone() at the spawn).
MarkSeen(t) == [unseen EXCEPT ![t] = FALSE]

\* The loop body's update_watch_rx.changed() completes: on Ok the receiver
\* marks the version seen and the loop checks the counter again, on Err
\* sleep_updates returns.
ChangedCompletes(t) ==
    IF ChangedResult(t) = "ok"
    THEN /\ unseen' = MarkSeen(t)
         /\ pc' = [pc EXCEPT ![t] = "sleep_check"]
         /\ UNCHANGED <<arg, target, goal>>
    ELSE /\ pc' = [pc EXCEPT ![t] = "ready"]
         /\ arg' = [arg EXCEPT ![t] = 0]
         /\ target' = [target EXCEPT ![t] = 0]
         /\ goal' = [goal EXCEPT ![t] = 0]
         /\ UNCHANGED unseen

\* The first poll of update_watch_rx.changed().await, some time after the
\* loop condition was evaluated: it completes at once, or registers the task
\* for the next send and suspends it.
SleepPoll(t) ==
    /\ pc[t] = "sleep_poll"
    /\ IF ChangedResult(t) = "pending"
         THEN /\ pc' = [pc EXCEPT ![t] = "sleep_wait"]
              /\ UNCHANGED <<arg, target, goal, unseen>>
         ELSE ChangedCompletes(t)
    /\ UNCHANGED <<hostVars, queue, reply, execCount, enqOrder>>

\* A task suspended in changed() is woken by a send or by the sender's drop
\* and polled again.  (A spurious wakeup finds nothing and suspends again.)
SleepWake(t) ==
    /\ pc[t] = "sleep_wait"
    /\ ChangedResult(t) # "pending"
    /\ ChangedCompletes(t)
    /\ UNCHANGED <<hostVars, queue, reply, execCount, enqOrder>>

\* Mutant of Enqueue: the callback is put at the front of the queue.
Enqueue_Front(q, e) == <<e>> \o q

\* Where update_run_tx.send puts the boxed callback.
Enqueue(q, e) == Append(q, e)

\* run_on_main_thread up to its await: the oneshot channel is made and the
\* boxed callback sent; the send fails, and the task panics, when the queue's
\* receiving half is gone.
Submit(t) ==
    /\ pc[t] = "ready"
    /\ IF facade = "gone"
         THEN /\ pc' = [pc EXCEPT ![t] = "panicked"]
              /\ UNCHANGED <<queue, reply, execCount, enqOrder>>
              /\ unseen' = [unseen EXCEPT ![t] = FALSE]
         ELSE /\ queue' = Enqueue(queue, Entry(t))
              /\ reply' = [reply EXCEPT ![t] = Pending]
              /\ execCount' = [execCount EXCEPT ![t] = 0]
              /\ enqOrder' = Append(enqOrder, t)
              /\ pc' = [pc EXCEPT ![t] = "rmt_wait"]
              /\ UNCHANGED unseen
    /\ UNCHANGED <<hostVars, arg, target, goal>>

\* output_rx.await.expect(..): the call returns the output once it was sent,
\* and panics once output_tx was dropped unused.
RmtRecv(t) ==
    /\ pc[t] = "rmt_wait"
    /\ reply[t].st \in {"sent", "closed"}
    /\ pc' = [pc EXCEPT ![t] = IF reply[t].st = "sent" THEN "ready" ELSE "panicked"]
    /\ reply' = [reply EXCEPT ![t] = NoReply]
    /\ unseen' = [unseen EXCEPT ![t] = reply[t].st = "sent" /\ unseen[t]]
    /\ execCount' = [execCount EXCEPT ![t] = 0]
    /\ UNCHANGED <<hostVars, queue, arg, target, goal, enqOrder>>

\* The task's future completes.
Finish(t) ==
    /\ pc[t] = "ready"
    /\ pc' = [pc EXCEPT ![t] = "done"]
    /\ unseen' = [unseen EXCEPT ![t] = FALSE]
    /\ UNCHANGED <<hostVars, queue, arg, target, goal, reply, execCount, enqOrder>>

\* The background runtime drops the task's future at one of its awaits
\* (JoinHandle::abort, runtime shutdown): output_rx or the pending changed()
\* is dropped with it.
Cancel(t) ==
    /\ pc[t] \in {"sleep_wait", "rmt_wait"}
    /\ pc' = [pc EXCEPT ![t] = "dropped"]
    /\ reply' = [reply EXCEPT ![t] = NoReply]
    /\ unseen' = [unseen EXCEPT ![t] = FALSE]
    /\ arg' = [arg EXCEPT ![t] = 0]
    /\ target' = [target EXCEPT ![t] = 0]
    /\ goal' = [goal EXCEPT ![t] = 0]
    /\ UNCHANGED <<hostVars, queue, execCount, enqOrder>>

\* ------------------------------------------------------------- specifications

HostStep ==
    \/ PumpBegin
    \/ PumpNoClock
    \/ PumpSend
    \/ PumpTake
    \/ PumpTryRecv
    \/ PumpCallbackDone
    \/ PumpUnwind
    \/ DropUpdateTicks
    \/ DropRuntime

TaskStep(t) ==
    \/ Spawn(t)
    \/ \E k \in SleepArgs : SleepStart(t, k)
    \/ SleepCheck(t)
    \/ SleepPoll(t)
    \/ SleepWake(t)
    \/ Submit(t)
    \/ RmtRecv(t)
    \/ Finish(t)
    \/ Cancel(t)

Next == HostStep \/ \E t \in Tasks : TaskStep(t)

Spec == Init /\ [][Next]_vars

\* The scheduling the code can count on: the host thread runs a pump
\* invocation it has begun to its end, and the background runtime polls a task
\* whose await can complete.  Nothing is assumed about when the host ticks,
\* when tasks start an operation, or about cancellation and teardown.
Fairness ==
    /\ WF_vars(PumpSend)
    /\ WF_vars(PumpTake)
    /\ WF_vars(PumpTryRecv)
    /\ WF_vars(PumpCallbackDone)
    /\ WF_vars(PumpUnwind)
    /\ \A t \in Tasks :
        /\ WF_vars(SleepCheck(t))
        /\ WF_vars(SleepPoll(t))
        /\ WF_vars(SleepWake(t))
        /\ WF_vars(RmtRecv(t))

FairSpec == Spec /\ Fairness

TypeOK ==
    /\ ticks \in 0..MaxTicks
    /\ version \in 0..MaxTicks
    /\ txAlive \in BOOLEAN
    /\ facade \in {"world", "pump", "gone"}
    /\ pumpPc \in {"idle", "incremented", "sent", "drain", "running", "panicked"}
    /\ Len(queue) <= NumTasks
    /\ \A t \in Tasks : pc[t] \in LivePcs \cup {"unspawned", "done", "dropped", "panicked"}

\* ------------------------------------------------------------- claims

\* The positions inside sleep_updates.
Sleeping == {"sleep_check", "sleep_poll", "sleep_wait"}

\* A step in which sleep_updates of task t returns.
SleepReturns(t) == pc[t] \in Sleeping /\ pc'[t] = "ready"

\* C1: a callback enqueued after the drain of a pump invocation has begun is
\* never executed by that pump invocation; in particular no executing
\* callback was enqueued while another callback of the same drain was
\* executing (late).
C1_DeferredSubmission == \A e \in executing : ~e.late

\* C2: every pump invocation terminates whatever the tasks do: once the drain
\* loop runs, the pump eventually leaves it (here even counting a panic of the
\* host thread as leaving it).
C2_PumpTerminates == (pumpPc \in {"drain", "running"}) ~> (pumpPc \in {"idle", "panicked"})

\* C3 as stated: while the sender is alive, sleep_updates(k) called at tick T
\* never returns with the counter below T + k, for every k.
C3_SleepSafety_AnyK ==
    [][\A t \in Tasks : (SleepReturns(t) /\ txAlive') => ticks' >= goal[t]]_vars

\* C3 as amended: while the sender is alive, sleep_updates(k) called at tick T
\* with T + k representable in usize (no wrap of target_tick) never returns
\* with the counter below T + k.
C3_SleepSafety ==
    [][\A t \in Tasks :
          (SleepReturns(t) /\ txAlive' /\ goal[t] < Modulus) => ticks' >= goal[t]]_vars

\* C3's case: a sleeper with k >= 1 is at its loop condition with its target
\* reached (its next step returns) while another task is still suspended.
C3_Witness ==
    \E t, u \in Tasks :
        /\ pc[t] = "sleep_check" /\ arg[t] >= 1 /\ goal[t] < Modulus
        /\ Load >= goal[t] /\ ~unseen[t] /\ txAlive
        /\ pc[u] = "sleep_wait" /\ Load < goal[u]

\* C4: no missed wakeup.  Once the counter has reached the target of a task
\* that found it below the target, and the pump's send for that increment is
\* done, the task's changed() completes (at its first poll or by waking it)
\* without any further pump invocation; and under fair scheduling a sleeper
\* whose target is reached eventually leaves sleep_updates.
C4_NoMissedWakeup ==
    /\ [](\A t \in Tasks :
            (pc[t] \in {"sleep_poll", "sleep_wait"} /\ Load >= goal[t] /\ pumpPc # "incremented")
                => ChangedResult(t) # "pending")
    /\ \A t \in Tasks : (pc[t] \in Sleeping /\ Load >= goal[t]) ~> (pc[t] \notin Sleeping)

\* C4's case: a task with k >= 1 found the counter below its target and has
\* not polled changed() yet, and meanwhile the pump has incremented the
\* counter to the target and sent the signal.
C4_Witness ==
    \E t \in Tasks :
        /\ pc[t] = "sleep_poll" /\ arg[t] >= 1 /\ Load >= goal[t]
        /\ pumpPc # "incremented" /\ unseen[t] /\ txAlive

\* C5: FIFO.  Whenever the pump starts a callback, it is the oldest callback
\* that was enqueued and has not started: none enqueued before it is skipped.
C5_FifoOrder ==
    [][\A e \in executing' \ executing :
          enqOrder # <<>> /\ e.task = Head(enqOrder)]_vars

\* C5's case: the pump runs one callback while a callback enqueued before
\* the drain by another task is still queued behind it.
C5_Witness ==
    /\ pumpPc = "running"
    /\ Len(queue) >= 1
    /\ \E e \in executing : ~e.late /\ ~queue[1].late /\ e.task # queue[1].task

\* C6: a callback that ends in the fatal condition does not keep the pump from
\* the other callbacks of the drain: the pump never stops on a panic with
\* callbacks still queued.
C6_FaultIsolation == pumpPc = "panicked" => queue = <<>>

\* C7: the queue entry of a call whose task was dropped is reclaimed: no pump
\* drain starts the callback of a task whose future was dropped while the
\* callback was queued.
C7_CancelReclaims ==
    [][\A i \in DOMAIN queue :
          pc[queue[i].task] = "dropped" => queue[i] \notin executing']_vars

\* C8: at most one callback is executing; one executes only inside a pump
\* invocation's drain (the facade taken, the clock advanced for this
\* invocation, the pump not returned); and the callback of a call is started
\* at most once, for a caller that is still suspended on it or was dropped.
C8_ExclusiveOnce ==
    /\ Cardinality(executing) <= 1
    /\ executing # {} =>
          /\ pumpPc \in {"running", "panicked"}
          /\ facade = "pump"
          /\ curTick = ticks
          /\ ticks = completed + 1
    /\ \A t \in Tasks : execCount[t] <= 1
    /\ \A e \in executing : pc[e.task] \in {"rmt_wait", "dropped"} /\ execCount[e.task] = 1

\* C8's case: in a second or later pump invocation a callback is executing
\* while another one is queued.
C8_Witness ==
    /\ executing # {}
    /\ queue # <<>>
    /\ completed >= 1

\* C9: between pump invocations the counter equals the number of completed
\* invocations (0 at the start), and the value current_tick() reads changes
\* only by the one increment at the start of a pump invocation.
C9_TickCount ==
    /\ [](pumpPc = "idle" => Load = completed)
    /\ [][\/ Load' = Load
          \/ pumpPc = "idle" /\ pumpPc' = "incremented" /\ Load' = Load + 1]_vars

\* C9's case: two pump invocations have completed and a task that can read
\* the counter is running.
C9_Witness ==
    /\ pumpPc = "idle"
    /\ completed >= 2
    /\ \E t \in Tasks : pc[t] = "ready"

\* C10: every callback that is queued when a pump invocation begins is
\* executed by that invocation: when the pump is not running (it returned, or
\* the host thread panicked), no callback enqueued before the latest
\* invocation began is still queued.
C10_DrainsAllQueued ==
    pumpPc \in {"idle", "panicked"} => \A i \in DOMAIN queue : queue[i].tick >= Load

\* C11: round-trip delivery without cross-talk.  A run_on_main_thread call
\* that returns, returns the value its own callback produced, after that
\* callback was started (once) and has finished; and a callback that ends
\* normally puts its value into exactly one reply channel, that of its own
\* call, whose task is waiting for it.
C11_RoundTrip ==
    [][/\ \A t \in Tasks :
            (pc[t] = "rmt_wait" /\ pc'[t] = "ready")
                => /\ reply[t] = Sent(Output([task |-> t]))
                   /\ execCount[t] = 1
                   /\ \A e \in executing : e.task # t
       /\ \A e \in executing :
            (pumpPc = "running" /\ pumpPc' = "drain")
                => /\ {t \in Tasks : reply'[t] # reply[t]} = {e.task}
                   /\ reply[e.task] = Pending
                   /\ pc[e.task] = "rmt_wait"]_vars

\* C11's case: two calls are pending at once; the reply of one is in its
\* channel while the callback of the other is executing.
C11_Witness ==
    \E t, u \in Tasks :
        /\ t # u
        /\ pc[t] = "rmt_wait" /\ reply[t].st = "sent"
        /\ pc[u] = "rmt_wait" /\ \E e \in executing : e.task = u

\* C12: a callback runs with a current_tick that is at least the counter at
\* its enqueue.  For a task that slept first: sleep_updates returns with the
\* counter below its target_tick only when the sender is gone, the sender
\* never comes back and no callback runs without it, and the counter never
\* decreases; so a callback submitted after sleep_updates returned runs with
\* current_tick >= target_tick.
C12_CallbackTick ==
    /\ [](\A e \in executing : curTick >= e.tick)
    /\ [](executing # {} => txAlive)
    /\ [][/\ ticks' >= ticks
          /\ txAlive' => txAlive
          /\ \A t \in Tasks :
                (SleepReturns(t) /\ ticks' < target[t]) => ~txAlive']_vars

\* C12's case: a callback enqueued when the counter read 1 or more is
\* executing in a later tick.
C12_Witness == \E e \in executing : e.tick >= 1 /\ curTick > e.tick

\* A step that destroys the runtime facade.
Teardown == facade # "gone" /\ facade' = "gone"

\* C13: teardown does not hang pending callbacks and ends them loudly.  A
\* task that is waiting for its reply when the facade is destroyed is left
\* with a closed reply channel, from which its call ends in the fatal
\* condition (and in nothing else while its future lives); and a call started
\* after the teardown ends in the fatal condition at its submission.
C13_TeardownFatal ==
    [][/\ Teardown =>
            \A t \in Tasks :
                (pc[t] = "rmt_wait" /\ reply[t] = Pending)
                    => (pc'[t] = "rmt_wait" /\ reply'[t] = Closed)
       /\ \A t \in Tasks :
            (pc[t] = "rmt_wait" /\ reply[t] = Closed /\ pc'[t] \notin {"rmt_wait", "dropped"})
                => pc'[t] = "panicked"
       /\ \A t \in Tasks :
            (facade = "gone" /\ pc[t] = "ready" /\ pc'[t] \notin {"ready", "done", "sleep_check"})
                => pc'[t] = "panicked"]_vars

\* C14: teardown starvation.  Once the signal's sender is destroyed, a task
\* suspended in sleep_updates is not left waiting: its changed() completes
\* although the counter is below the target and no pump advances it, what it
\* leaves sleep_updates by is a plain return (or the drop of its future),
\* never the fatal condition, and under fair scheduling it does leave.
C14_TeardownStarvation ==
    /\ [](\A t \in Tasks : (pc[t] = "sleep_wait" /\ ~txAlive) => ENABLED SleepWake(t))
    /\ [][\A t \in Tasks :
            (pc[t] \in Sleeping /\ pc'[t] \notin Sleeping) => pc'[t] \in {"ready", "dropped"}]_vars
    /\ \A t \in Tasks : (pc[t] \in Sleeping /\ ~txAlive) ~> (pc[t] \notin Sleeping)

\* C14's case: a task with k >= 1 is suspended in changed() with nothing
\* unseen and the counter below its target, and the sender is gone.
C14_Witness ==
    \E t \in Tasks :
        /\ pc[t] = "sleep_wait" /\ arg[t] >= 1 /\ Load < target[t]
        /\ ~unseen[t] /\ ~txAlive

\* A task is subscribed to the change signal while it owns a TaskContext.
Subscribed == {t \in Tasks : pc[t] \in LivePcs}

\* C15: advancing the tick clock with no task subscribed is a normal, silent
\* case: increment_ticks' send after the increment raises no fault.
C15_NoSubscriberSilent ==
    [][(pumpPc = "incremented" /\ Subscribed = {}) => pumpPc' # "panicked"]_vars

\* A step of another sleeping task u leaves sleeper t as it is: its position,
\* its target and what its receiver has seen.
SleepersApart ==
    \A t, u \in Tasks :
        (t # u /\ pc[t] \in Sleeping /\ pc[u] \in Sleeping /\ pc'[u] # pc[u] /\ facade' = facade)
            => (pc'[t] = pc[t] /\ target'[t] = target[t] /\ unseen'[t] = unseen[t])

\* Every sleeper whose target is reached, the pump's send being done, finds
\* its changed() complete, whatever the other sleepers did with the signal.
EachAbleToReturn ==
    \A t \in Tasks :
        (pc[t] \in {"sleep_poll", "sleep_wait"} /\ Load >= goal[t] /\ pumpPc # "incremented")
            => ChangedResult(t) # "pending"

\* Task t is in a sleep_updates call made at the same tick as the call
\* another task is in, with a different duration.
SleepsBeside(t) ==
    \E u \in Tasks :
        /\ u # t /\ pc[u] \in Sleeping
        /\ goal[u] - arg[u] = goal[t] - arg[t]
        /\ arg[u] # arg[t]

\* C16 as stated: concurrent sleepers are independent, for any durations:
\* each returns only once the counter has reached its own T + k (while the
\* sender is alive), each is able to return once it is reached, and no step
\* of one sleeper changes anything of another.
C16_Independence_AnyK ==
    /\ []EachAbleToReturn
    /\ [][/\ SleepersApart
          /\ \A t \in Tasks :
                (SleepReturns(t) /\ SleepsBeside(t) /\ txAlive') => ticks' >= goal[t]]_vars

\* C16 as amended: the same for durations whose T + k is representable in
\* usize (target_tick does not wrap).
C16_Independence ==
    /\ []EachAbleToReturn
    /\ [][/\ SleepersApart
          /\ \A t \in Tasks :
                (SleepReturns(t) /\ SleepsBeside(t) /\ txAlive' /\ goal[t] < Modulus)
                    => ticks' >= goal[t]]_vars

\* C16's case: two tasks called sleep_updates at the same tick with
\* different durations; the counter has reached the target of one, which is
\* at its loop condition about to return, while the other is still suspended
\* below its own target.
C16_Witness ==
    \E t, u \in Tasks :
        /\ pc[t] = "sleep_check" /\ pc[u] = "sleep_wait"
        /\ arg[t] >= 1 /\ arg[u] > arg[t]
        /\ goal[t] - arg[t] = goal[u] - arg[u]
        /\ goal[u] < Modulus
        /\ Load >= goal[t] /\ Load < goal[u] /\ txAlive

\* C17: zero-sleep no-op.  A task in sleep_updates(0) never reaches the wait
\* on the change signal: whoever polls or is suspended in changed() has a
\* duration of at least 1, and sleep_updates(0) leaves its loop condition
\* only by returning (or by the drop of its future at a teardown).
C17_ZeroSleep ==
    /\ [](\A t \in Tasks : pc[t] \in {"sleep_poll", "sleep_wait"} => arg[t] >= 1)
    /\ [][\A t \in Tasks :
            (pc[t] = "sleep_check" /\ arg[t] = 0 /\ pc'[t] # "sleep_check")
                => pc'[t] \in {"ready", "dropped"}]_vars

\* C17's case: sleep_updates(0) is at its loop condition while the signal
\* has a change its receiver has not seen and the sender has been dropped.
C17_Witness ==
    \E t \in Tasks :
        /\ pc[t] = "sleep_check" /\ arg[t] = 0 /\ goal[t] = Load
        /\ unseen[t] /\ ~txAlive /\ Load >= 1

\* The host thread is inside a pump invocation, past its advance step.
InPump == pumpPc \in {"incremented", "sent", "drain", "running"}

\* C18: tick numbering is consistent inside a drain.  While a callback is
\* executing, the current_tick it was given equals the shared counter as
\* current_tick() reads it; the pump's current_tick is the counter its own
\* advance step produced; and from that step to the end of the invocation
\* neither the counter nor the pump's current_tick changes.
C18_TickInDrain ==
    /\ [](executing # {} => curTick = Load)
    /\ [][/\ (pumpPc = "idle" /\ pumpPc' = "incremented") => (curTick' = ticks' /\ ticks' = ticks + 1)
          /\ InPump => (ticks' = ticks /\ curTick' = curTick)]_vars

\* C18's case: in the second pump invocation a callback is executing while
\* another task is about to read the counter.
C18_Witness ==
    /\ executing # {}
    /\ curTick = 2
    /\ \E t \in Tasks : pc[t] \in {"ready", "sleep_check"}

\* A step in which task t goes back from changed() to its loop condition.
Rechecks(t) == pc[t] \in {"sleep_poll", "sleep_wait"} /\ pc'[t] = "sleep_check"

\* C19: no busy-spin, coalesced wakeups.  A sleeper re-checks the counter
\* only when the signal has a version its receiver has not seen, and the
\* re-check uses that up however many sends it stands for; a receiver comes
\* to have an unseen version only by a send of the pump (or has it from its
\* clone at the spawn); and a suspended task with nothing unseen and a live
\* sender does not run.  So the re-checks of one sleep are at most the pump
\* advances during it plus one.
C19_CoalescedWakeups ==
    [][\A t \in Tasks :
          /\ Rechecks(t) => (unseen[t] /\ ~unseen'[t])
          /\ (~unseen[t] /\ unseen'[t])
                => (pc[t] = "unspawned" \/ (pumpPc = "incremented" /\ pumpPc' = "sent"))
          /\ (pc[t] = "sleep_wait" /\ ~unseen[t] /\ txAlive /\ txAlive')
                => pc'[t] \in {"sleep_wait", "dropped"}]_vars

\* C19's case: the pump has advanced twice since a task found the counter
\* below its target, and the task has not polled changed() in between: the
\* two sends are one unseen change to it.
C19_Witness ==
    \E t \in Tasks :
        /\ pc[t] = "sleep_poll" /\ unseen[t] /\ version = 2
        /\ Load - (goal[t] - arg[t]) = 2
        /\ Load < target[t]

\* C20: the facade is out of the world for exactly the drain.  While a
\* callback is executing, and for the whole drain, the TokioTasksRuntime is
\* held by the pump and absent from the world; outside a drain (a panic's
\* unwinding apart) the pump does not hold it; a pump invocation that finds
\* it in the world takes it out; and when the drain ends with every callback
\* returned, the same facade is in the world again, with the counter and the
\* queue as they were.
C20_FacadeTakenOut ==
    /\ [](executing # {} => facade = "pump")
    /\ [](pumpPc \in {"drain", "running"} => facade = "pump")
    /\ [](facade = "pump" => pumpPc \in {"drain", "running", "panicked"})
    /\ [][/\ (pumpPc = "sent" /\ pumpPc' # "sent" /\ facade = "world")
                => (facade' = "pump" /\ pumpPc' = "drain")
          /\ (pumpPc \in {"drain", "running"} /\ pumpPc' = "idle")
                => (facade' = "world" /\ queue' = queue /\ ticks' = ticks /\ executing' = {})]_vars

\* C20's case: in a second or later pump invocation the drain has run a
\* callback, which returned normally, and finds the queue empty: its next
\* step puts the facade back.
C20_Witness ==
    /\ pumpPc = "drain"
    /\ facade = "pump"
    /\ queue = <<>>
    /\ completed >= 1
    /\ \E t \in Tasks : pc[t] = "rmt_wait" /\ reply[t].st = "sent"

====
